---- MODULE Spec2Model ----
(***************************************************************************)
(* Model of src/main.py: the scripted browser flow run_flow (an asyncio     *)
(* coroutine raced against a deadline by asyncio.wait_for), the child       *)
(* process wrapper _child_run_flow and the supervising _run_in_child_sync.  *)
(*                                                                          *)
(* Texts returned by the page are tuples of one-character strings, so that  *)
(* Python's `in`, split and strip are computed as the code computes them.   *)
(* A log entry f"{label}: {out}" is the record [label, out]; a plain        *)
(* log(msg) has an empty out.                                               *)
(***************************************************************************)
EXTENDS Integers, Sequences, FiniteSets, TLC

\* Longest value of the mobile field returned by the 'Get mobile' script.
MaxFieldLen == 2

\* ------------------------------------------------------------------------
\* Strings
\* ------------------------------------------------------------------------
SuccessMarker == <<"S", "U", "C", "C", "E", "S", "S">>
SuccessColon == SuccessMarker \o <<":">>
ErrorMarker == <<"E", "R", "R", "O", "R">>
Whitespace == {" "}
FieldChars == {" ", "9"}

\* Python: p in s
Contains(s, p) ==
  \E i \in 1..(Len(s) - Len(p) + 1) : SubSeq(s, i, i + Len(p) - 1) = p

\* Index of the first occurrence of p in s (s.find(p) + 1); p occurs in s.
Find(s, p) ==
  CHOOSE i \in 1..(Len(s) - Len(p) + 1) :
    /\ SubSeq(s, i, i + Len(p) - 1) = p
    /\ \A j \in 1..(i - 1) : SubSeq(s, j, j + Len(p) - 1) # p

\* Python: s.split(p, 1)[1], for p in s
SplitAfter(s, p) == SubSeq(s, Find(s, p) + Len(p), Len(s))

\* Python: s.strip()
Strip(s) ==
  LET keep == {i \in 1..Len(s) : s[i] \notin Whitespace}
  IN IF keep = {} THEN <<>>
     ELSE SubSeq(s, CHOOSE i \in keep : \A j \in keep : i <= j,
                    CHOOSE i \in keep : \A j \in keep : i >= j)

\* Values the mobile input field can hold.
FieldValues == UNION {[1..n -> FieldChars] : n \in 0..MaxFieldLen}

\* Texts the scripts return (execute_js_and_get_text turns a raised
\* exception into an 'ERROR: JavaScript execution error: ...' text).
OkText == SuccessMarker
ErrText == ErrorMarker
ErrDetailText == ErrorMarker \o <<":", " ", "x">>
\* 'ERROR: ' + e.message where the message itself holds 'SUCCESS: 9'
ErrEchoText == ErrorMarker \o <<":", " ">> \o SuccessColon \o <<" ", "9">>
MobileTexts ==
  {SuccessColon \o <<" ">> \o v : v \in FieldValues} \cup {ErrDetailText, ErrEchoText}

\* Optional Python value: None, or a string.
None == <<>>
Some(s) == <<s>>

\* ------------------------------------------------------------------------
\* Log entries and results
\* ------------------------------------------------------------------------
Entry(label, out) == [label |-> label, out |-> out]
Msg(m) == [label |-> m, out |-> <<>>]
ExcText == <<"e">>
TimeoutEntry == Msg("ERROR: Flow timed out")

FlowResult(s, m, msgs) == [success |-> s, mobile_number |-> m, messages |-> msgs]

HasEntry(msgs, label) == \E i \in 1..Len(msgs) : msgs[i].label = label
EntryOut(msgs, label) ==
  msgs[CHOOSE i \in 1..Len(msgs) : msgs[i].label = label].out

\* ------------------------------------------------------------------------
\* The steps of main()
\* ------------------------------------------------------------------------
SoftSteps == {"Set RTO", "Click checkbox", "Proceed #1", "Find PF proceed",
              "Click PF proceed", "Open Services", "Open RC Related Services",
              "Open Re-Schedule link"}
ScriptSteps == SoftSteps \cup {"Fill form", "Validate", "Get mobile"}

StepTexts(label) ==
  CASE label = "Get mobile" -> MobileTexts
    [] label = "Fill form" -> {OkText, ErrDetailText}
    [] OTHER -> {OkText, ErrText}

\* The await that follows each human_delay of the try body.
DelayNext ==
  [delay_94 |-> "clear_95", delay_101 |-> "click_102", delay_104 |-> "delay_111",
   delay_111 |-> "select_113", delay_117 |-> "Set RTO", delay_142 |-> "Click checkbox",
   delay_159 |-> "Proceed #1", delay_174 |-> "Find PF proceed",
   delay_213 |-> "Open Services", delay_223 |-> "Open RC Related Services",
   delay_236 |-> "Open Re-Schedule link", delay_252 |-> "Fill form",
   delay_273 |-> "Validate", delay_290 |-> "Get mobile"]
BodyDelays == DOMAIN DelayNext

\* The await that follows a scripted step in the try body ("delay_310" is the
\* first await of the finally block).

\* Lines 270-271 without the return.
FillNextNoReturn(out) == "delay_273"
\* Lines 270-271: return unless "SUCCESS" is in the text.
FillNext(out) == IF Contains(out, SuccessMarker) THEN "delay_273" ELSE "delay_310"

\* Line 192 with a return when the button is not found.
PfNextFatal(out) ==
  IF Contains(out, SuccessMarker) THEN "Click PF proceed" ELSE "delay_310"
\* Lines 192-193, 213: the click is skipped unless "SUCCESS" is in the text.
PfNext(out) == IF Contains(out, SuccessMarker) THEN "Click PF proceed" ELSE "delay_213"

StepNext(label, out) ==
  CASE label = "Set RTO" -> "delay_142"
    [] label = "Click checkbox" -> "delay_159"
    [] label = "Proceed #1" -> "delay_174"
    [] label = "Find PF proceed" -> PfNext(out)
    [] label = "Click PF proceed" -> "delay_213"
    [] label = "Open Services" -> "delay_223"
    [] label = "Open RC Related Services" -> "delay_236"
    [] label = "Open Re-Schedule link" -> "delay_252"
    [] label = "Fill form" -> FillNext(out)
    [] label = "Validate" -> "delay_290"
    [] label = "Get mobile" -> "delay_310"

\* Lines 302-304 without the strip().
ExtractNoStrip(res, out) ==
  IF Contains(out, SuccessColon)
  THEN [res EXCEPT !.mobile_number = Some(SplitAfter(out, SuccessColon)),
                   !.success = TRUE]
  ELSE res

\* Lines 302-304: the result after the 'Get mobile' text.
Extract(res, out) ==
  IF Contains(out, SuccessColon)
  THEN [res EXCEPT !.mobile_number = Some(Strip(SplitAfter(out, SuccessColon))),
                   !.success = TRUE]
  ELSE res

VARIABLES
  rf,            \* run_flow: "idle", "main" (inside wait_for), "returned", "raised"
  pc,            \* the await main() is suspended at
  cancelling,    \* a CancelledError is propagating out of main()
  timer,         \* wait_for's deadline: "idle", "armed", "fired"
  messages,      \* the log
  result,        \* result["success"], result["mobile_number"]
  browser,       \* browser is not None
  page,          \* page is not None
  temp_profile,  \* the profile directory: "none", "exists", "removed"
  rmtree_calls,  \* calls of shutil.rmtree(temp_profile)
  child,         \* _child_run_flow: "none", "run", "dump", "exited", "killed"
  parent,        \* _run_in_child_sync: "start", "join", "terminate", "join10",
                 \* "read", "cleanup", "returned", "raised"
  handoff,       \* the file at out_path: [exists, data]
  presult,       \* the result of _run_in_child_sync
  path,          \* what p.is_alive() said at line 362: "none", "alive", "exited"
  read_state,    \* what lines 371-372 found: "none", "open_failed", "empty",
                 \* "unparseable", "parsed"
  stop_calls,    \* calls of browser.stop()
  clear_calls,   \* calls of clear_storage(page): [entry, exit]
  expiry_len     \* Len(messages) when the deadline expired, -1 before

histVars == <<stop_calls, clear_calls, expiry_len>>
flowVars == <<rf, pc, cancelling, timer, messages, result, browser, page,
              temp_profile, rmtree_calls, histVars>>
isoVars == <<parent, handoff, presult, path, read_state>>
vars == <<rf, pc, cancelling, timer, messages, result, browser, page,
          temp_profile, rmtree_calls, child, parent, handoff, presult, path,
          read_state, stop_calls, clear_calls, expiry_len>>

log(m) == messages' = Append(messages, m)

InMain == child = "run" /\ rf = "main"

\* Lines 59-68, 321-322 and 78-89: the locals, mkdtemp, wait_for(main()) up to
\* main's first await, uc.start.
run_flow_enter ==
  /\ child = "run" /\ rf = "idle"
  /\ rf' = "main"
  /\ messages' = <<Msg("Starting NoDriver automation...")>>
  /\ result' = [success |-> FALSE, mobile_number |-> None]
  /\ temp_profile' = "exists"
  /\ browser' = FALSE /\ page' = FALSE
  /\ timer' = "armed"
  /\ cancelling' = FALSE
  /\ pc' = "uc_start"
  /\ stop_calls' = 0
  /\ clear_calls' = [entry |-> 0, exit |-> 0]
  /\ expiry_len' = -1
  /\ UNCHANGED <<rmtree_calls, child, isoVars>>

\* Line 89: uc.start returns the browser, or raises; the call is outside the
\* try, so the exception leaves main(), wait_for and run_flow.
uc_start(ok) ==
  /\ InMain /\ pc = "uc_start"
  /\ IF ok
     THEN /\ browser' = TRUE
          /\ log(Msg("Loading website..."))
          /\ pc' = "browser_get"
          /\ UNCHANGED <<rf, timer>>
     ELSE /\ rf' = "raised"
          /\ pc' = "done"
          /\ timer' = "idle"
          /\ UNCHANGED <<browser, messages>>
  /\ UNCHANGED <<cancelling, result, page, temp_profile, rmtree_calls, child, isoVars, histVars>>

\* Line 93 (and 306-307 when it raises).
browser_get(ok) ==
  /\ InMain /\ pc = "browser_get"
  /\ IF ok
     THEN page' = TRUE /\ pc' = "delay_94" /\ UNCHANGED messages
     ELSE log(Entry("Error", ExcText)) /\ pc' = "delay_310" /\ UNCHANGED page
  /\ UNCHANGED <<rf, cancelling, timer, result, browser, temp_profile,
                 rmtree_calls, child, isoVars, histVars>>

\* Lines 24-26: the sleep ends. Line 310 is the delay of the finally block,
\* followed by the exit clear_storage when the page was opened. The sleeps of
\* lines 94 and 310 are followed by the call of clear_storage (lines 95, 312).
human_delay ==
  /\ InMain
  /\ \/ pc \in BodyDelays /\ pc' = DelayNext[pc]
     \/ pc = "delay_310" /\ pc' = (IF page THEN "clear_312" ELSE "stop_317")
  /\ clear_calls' =
       CASE pc' = "clear_95" -> [clear_calls EXCEPT !.entry = @ + 1]
         [] pc' = "clear_312" -> [clear_calls EXCEPT !.exit = @ + 1]
         [] OTHER -> clear_calls
  /\ UNCHANGED <<rf, cancelling, timer, messages, result, browser, page,
                 temp_profile, rmtree_calls, child, isoVars, stop_calls,
                 expiry_len>>

\* Lines 38-57 at lines 95 and 312: page.evaluate ends, with a text or with an
\* exception; neither is looked at.
clear_storage ==
  /\ InMain
  /\ \/ pc = "clear_95" /\ pc' = "select_99"
     \/ pc = "clear_312" /\ pc' = "stop_317"
  /\ UNCHANGED <<rf, cancelling, timer, messages, result, browser, page,
                 temp_profile, rmtree_calls, child, isoVars, histVars>>

\* Lines 98-100, 105-108: page.select(".btn-close").
select_modal(found) ==
  /\ InMain /\ pc = "select_99"
  /\ CASE found = "found" -> pc' = "delay_101" /\ UNCHANGED messages
       [] found = "none" -> log(Msg("Modal dialog not found")) /\ pc' = "delay_111"
       [] found = "raise" -> log(Entry("Modal close error", ExcText)) /\ pc' = "delay_111"
  /\ UNCHANGED <<rf, cancelling, timer, result, browser, page, temp_profile,
                 rmtree_calls, child, isoVars, histVars>>

\* Lines 102-104, 107-108: close_button.click().
click_modal(ok) ==
  /\ InMain /\ pc = "click_102"
  /\ IF ok
     THEN log(Msg("Modal dialog closed")) /\ pc' = "delay_104"
     ELSE log(Entry("Modal close error", ExcText)) /\ pc' = "delay_111"
  /\ UNCHANGED <<rf, cancelling, timer, result, browser, page, temp_profile,
                 rmtree_calls, child, isoVars, histVars>>

\* Lines 112-114, 118-121: page.select("#fit_c_office_to_label").
select_rto(found) ==
  /\ InMain /\ pc = "select_113"
  /\ CASE found = "found" -> pc' = "click_115" /\ UNCHANGED messages
       [] found = "none" -> log(Msg("RTO dropdown not found")) /\ pc' = "Set RTO"
       [] found = "raise" ->
            log(Entry("RTO dropdown click error", ExcText)) /\ pc' = "Set RTO"
  /\ UNCHANGED <<rf, cancelling, timer, result, browser, page, temp_profile,
                 rmtree_calls, child, isoVars, histVars>>

\* Lines 115-117, 120-121: rto_label.click().
click_rto(ok) ==
  /\ InMain /\ pc = "click_115"
  /\ IF ok
     THEN log(Msg("Clicked RTO dropdown")) /\ pc' = "delay_117"
     ELSE log(Entry("RTO dropdown click error", ExcText)) /\ pc' = "Set RTO"
  /\ UNCHANGED <<rf, cancelling, timer, result, browser, page, temp_profile,
                 rmtree_calls, child, isoVars, histVars>>

\* Lines 73-76 at each scripted step of lines 124-304: the script's text is
\* logged and decides what follows.
step_js(label, out) ==
  /\ InMain /\ pc = label
  /\ log(Entry(label, out))
  /\ pc' = StepNext(label, out)
  /\ result' = (IF label = "Get mobile" THEN Extract(result, out) ELSE result)
  /\ UNCHANGED <<rf, cancelling, timer, browser, page, temp_profile,
                 rmtree_calls, child, isoVars, histVars>>

\* Lines 315-319: browser.stop() is called and returns or raises; main() ends.
browser_stop ==
  /\ InMain /\ pc = "stop_317"
  /\ pc' = "main_done"
  /\ stop_calls' = stop_calls + 1
  /\ UNCHANGED <<rf, cancelling, timer, messages, result, browser, page,
                 temp_profile, rmtree_calls, child, isoVars, clear_calls,
                 expiry_len>>

\* Line 313 with `except Exception`: a CancelledError thrown at line 310 leaves
\* the finally block before browser.stop().
CancelTargetNarrow(at) ==
  CASE at \in {"uc_start", "delay_310"} -> "main_done"
    [] at = "clear_95" -> "select_99"
    [] at = "clear_312" -> "stop_317"
    [] OTHER -> "delay_310"

\* Where a CancelledError thrown into main() at an await leaves it: the bare
\* except of clear_storage (line 56) and of the finally block (line 313)
\* swallow it; `except Exception` (lines 35, 107, 120, 306) does not catch it.
CancelTarget(at) ==
  CASE at = "uc_start" -> "main_done"
    [] at = "clear_95" -> "select_99"
    [] at \in {"delay_310", "clear_312"} -> "stop_317"
    [] OTHER -> "delay_310"
CancelSwallowed(at) == at \in {"clear_95", "delay_310", "clear_312"}

\* Line 322: the deadline of wait_for expires while main() is suspended at an
\* await; main() is cancelled there.
InnerTimeout ==
  /\ InMain /\ timer = "armed"
  /\ pc \notin {"stop_317", "main_done"}
  /\ timer' = "fired"
  /\ pc' = CancelTarget(pc)
  /\ cancelling' = ~CancelSwallowed(pc)
  /\ expiry_len' = Len(messages)
  /\ UNCHANGED <<rf, messages, result, browser, page, temp_profile,
                 rmtree_calls, child, isoVars, stop_calls, clear_calls>>

\* Lines 326-330 moved into the try of line 321, after wait_for.
RmtreeInsideTry(dir, timedOut) == IF timedOut THEN dir ELSE "removed"
\* Lines 326-330: the directory after shutil.rmtree, whichever way wait_for ended.
Rmtree(dir, timedOut) == "removed"

\* Lines 321-332: main() has ended; wait_for raises TimeoutError when main()
\* ended with the CancelledError; the profile directory is removed.
run_flow_return ==
  /\ InMain /\ pc = "main_done"
  /\ messages' = (IF cancelling THEN Append(messages, TimeoutEntry) ELSE messages)
  /\ temp_profile' = Rmtree(temp_profile, cancelling)
  /\ rmtree_calls' = rmtree_calls + 1
  /\ rf' = "returned"
  /\ pc' = "done"
  /\ timer' = (IF timer = "armed" THEN "idle" ELSE timer)
  /\ cancelling' = FALSE
  /\ UNCHANGED <<result, browser, page, child, isoVars, histVars>>

\* ------------------------------------------------------------------------
\* The handoff file: json.dump and json.load
\* ------------------------------------------------------------------------
Tok(k, v) == <<k, v>>

\* Line 350: the tokens json.dump writes for a result, in order.
JsonDump(res) ==
  <<Tok("{", 0), Tok("success", res.success),
    Tok("mobile_number", res.mobile_number), Tok("details{", 0),
    Tok("messages[", 0)>>
  \o [i \in 1..Len(res.messages) |-> Tok("str", res.messages[i])]
  \o <<Tok("]", 0), Tok("}", 0), Tok("}", 0)>>

\* Line 372: json.load accepts the data (otherwise it raises JSONDecodeError).
JsonValid(d) ==
  /\ Len(d) >= 8
  /\ d[1][1] = "{" /\ d[2][1] = "success" /\ d[3][1] = "mobile_number"
  /\ d[4][1] = "details{" /\ d[5][1] = "messages["
  /\ \A i \in 6..(Len(d) - 3) : d[i][1] = "str"
  /\ d[Len(d) - 2][1] = "]" /\ d[Len(d) - 1][1] = "}" /\ d[Len(d)][1] = "}"

\* Line 372 with null read back as the empty string.
JsonLoadNullAsEmpty(d) ==
  FlowResult(d[2][2], IF d[3][2] = None THEN Some(<<>>) ELSE d[3][2],
             [i \in 1..(Len(d) - 8) |-> d[5 + i][2]])

\* Line 372: the value json.load returns for accepted data.
JsonLoad(d) ==
  FlowResult(d[2][2], d[3][2], [i \in 1..(Len(d) - 8) |-> d[5 + i][2]])

NoFile == [exists |-> FALSE, data |-> <<>>]
EmptyFile == [exists |-> TRUE, data |-> <<>>]
NoResult == FlowResult(FALSE, None, <<>>)

\* Line 346, line 368 and line 374: the synthesized results.
ChildErrorResult == FlowResult(FALSE, None, <<Entry("child_error", ExcText)>>)
ChildTimeoutResult == FlowResult(FALSE, None, <<Msg("child_timeout")>>)
ReadErrorResult == FlowResult(FALSE, None, <<Entry("read_error", ExcText)>>)

\* Lines 344-346: res is what run_flow returned, or the child_error record.
ChildRes ==
  IF rf = "returned"
  THEN FlowResult(result.success, result.mobile_number, messages)
  ELSE ChildErrorResult

\* ------------------------------------------------------------------------
\* _child_run_flow and _run_in_child_sync
\* ------------------------------------------------------------------------
Alive(c) == c \in {"run", "dump"}

\* Lines 356-360: mkstemp creates the empty file, the child is spawned and
\* reaches the call of run_flow (lines 335-344).
parent_start ==
  /\ parent = "start"
  /\ handoff' = EmptyFile
  /\ child' = "run"
  /\ parent' = "join"
  /\ UNCHANGED <<flowVars, presult, path, read_state>>

\* Lines 347-349, 351-352: run_flow has ended; open(out_path, "w") truncates or
\* creates the file, or raises and the child exits.
child_open(ok) ==
  /\ child = "run" /\ rf \in {"returned", "raised"}
  /\ IF ok
     THEN handoff' = EmptyFile /\ child' = "dump"
     ELSE child' = "exited" /\ UNCHANGED handoff
  /\ UNCHANGED <<flowVars, parent, presult, path, read_state>>

\* Lines 350-352: json.dump writes res and the child exits; n tokens reach the
\* file when json.dump raises before the end.
child_dump(n) ==
  /\ child = "dump"
  /\ handoff' = [exists |-> TRUE, data |-> SubSeq(JsonDump(ChildRes), 1, n)]
  /\ child' = "exited"
  /\ UNCHANGED <<flowVars, parent, presult, path, read_state>>

\* Line 362 without the is_alive test: the file is read whenever join returns.
ChildExitedUnchecked(c) == TRUE
\* Line 362: p.is_alive() is false.
ChildExited(c) == ~Alive(c)

\* Lines 361-362: p.join(timeout_sec + 60) returns because the child exited.
parent_join_exited ==
  /\ parent = "join" /\ ChildExited(child)
  /\ parent' = "read"
  /\ path' = "exited"
  /\ UNCHANGED <<flowVars, child, handoff, presult, read_state>>

\* Lines 361-362: p.join(timeout_sec + 60) returns at its timeout and
\* p.is_alive() is true.
parent_join_timeout ==
  /\ parent = "join" /\ Alive(child)
  /\ parent' = "terminate"
  /\ path' = "alive"
  /\ UNCHANGED <<flowVars, child, handoff, presult, read_state>>

\* Lines 363-366: p.terminate() ends the child, or raises and is ignored.
parent_terminate(ok) ==
  /\ parent = "terminate"
  /\ child' = (IF ok /\ Alive(child) THEN "killed" ELSE child)
  /\ parent' = "join10"
  /\ UNCHANGED <<flowVars, handoff, presult, path, read_state>>

\* Line 367: p.join(10) returns when the child has exited or after 10 seconds.
Join10Unbounded(c) == ~Alive(c)
Join10Returns(c) == TRUE

\* Lines 367-368.
parent_join10 ==
  /\ parent = "join10" /\ Join10Returns(child)
  /\ presult' = ChildTimeoutResult
  /\ parent' = "cleanup"
  /\ UNCHANGED <<flowVars, child, handoff, path, read_state>>

\* Lines 370-374: what open and json.load make of the file.
ReadState(h, openOk) ==
  CASE ~openOk \/ ~h.exists -> "open_failed"
    [] openOk /\ h.exists /\ h.data = <<>> -> "empty"
    [] openOk /\ h.exists /\ h.data # <<>> /\ ~JsonValid(h.data) -> "unparseable"
    [] OTHER -> "parsed"

\* Lines 370-374 with `except FileNotFoundError` in place of `except Exception`.
ReadOutcomeNarrow(h, openOk) ==
  LET st == ReadState(h, openOk)
  IN CASE st = "parsed" -> [raised |-> FALSE, result |-> JsonLoad(h.data)]
       [] st = "open_failed" -> [raised |-> FALSE, result |-> ReadErrorResult]
       [] OTHER -> [raised |-> TRUE, result |-> NoResult]

\* Lines 370-374: the result read, or the read_error record.
ReadOutcome(h, openOk) ==
  IF ReadState(h, openOk) = "parsed"
  THEN [raised |-> FALSE, result |-> JsonLoad(h.data)]
  ELSE [raised |-> FALSE, result |-> ReadErrorResult]

\* Lines 369-374: open may raise (the file is missing or cannot be opened).
parent_read(openOk) ==
  /\ parent = "read"
  /\ read_state' = ReadState(handoff, openOk)
  /\ presult' = ReadOutcome(handoff, openOk).result
  /\ parent' = (IF ReadOutcome(handoff, openOk).raised THEN "raised" ELSE "cleanup")
  /\ UNCHANGED <<flowVars, child, handoff, path>>

\* Lines 375-380: os.remove(out_path), return result.
parent_cleanup ==
  /\ parent = "cleanup"
  /\ handoff' = NoFile
  /\ parent' = "returned"
  /\ UNCHANGED <<flowVars, child, presult, path, read_state>>

\* ------------------------------------------------------------------------
\* Specifications
\* ------------------------------------------------------------------------
FlowInit ==
  /\ rf = "idle" /\ pc = "done" /\ cancelling = FALSE /\ timer = "idle"
  /\ messages = <<>>
  /\ result = [success |-> FALSE, mobile_number |-> None]
  /\ browser = FALSE /\ page = FALSE
  /\ temp_profile = "none" /\ rmtree_calls = 0
  /\ stop_calls = 0 /\ clear_calls = [entry |-> 0, exit |-> 0]
  /\ expiry_len = -1

\* run_flow alone: the child is at line 344, the parent waits at line 361.
Init ==
  /\ FlowInit
  /\ child = "run" /\ parent = "join" /\ handoff = EmptyFile
  /\ presult = NoResult /\ path = "none" /\ read_state = "none"

Next ==
  \/ run_flow_enter
  \/ \E ok \in BOOLEAN : uc_start(ok)
  \/ \E ok \in BOOLEAN : browser_get(ok)
  \/ human_delay
  \/ clear_storage
  \/ \E found \in {"found", "none", "raise"} : select_modal(found)
  \/ \E ok \in BOOLEAN : click_modal(ok)
  \/ \E found \in {"found", "none", "raise"} : select_rto(found)
  \/ \E ok \in BOOLEAN : click_rto(ok)
  \/ \E label \in ScriptSteps : \E out \in StepTexts(label) : step_js(label, out)
  \/ browser_stop
  \/ InnerTimeout
  \/ run_flow_return

Spec == Init /\ [][Next]_vars

\* The whole of _run_in_child_sync. The optional steps of the flow succeed
\* here (Spec covers their failures); the required steps, the browser start,
\* the page load, both deadlines and the file operations keep every outcome.
IsoStepTexts(label) == IF label \in SoftSteps THEN {OkText} ELSE StepTexts(label)

IsoInit ==
  /\ FlowInit
  /\ child = "none" /\ parent = "start" /\ handoff = NoFile
  /\ presult = NoResult /\ path = "none" /\ read_state = "none"

IsoNext ==
  \/ parent_start
  \/ run_flow_enter
  \/ \E ok \in BOOLEAN : uc_start(ok)
  \/ \E ok \in BOOLEAN : browser_get(ok)
  \/ human_delay
  \/ clear_storage
  \/ select_modal("found")
  \/ click_modal(TRUE)
  \/ select_rto("found")
  \/ click_rto(TRUE)
  \/ \E label \in ScriptSteps : \E out \in IsoStepTexts(label) : step_js(label, out)
  \/ browser_stop
  \/ InnerTimeout
  \/ run_flow_return
  \/ \E ok \in BOOLEAN : child_open(ok)
  \/ \E n \in 0..Len(JsonDump(ChildRes)) : child_dump(n)
  \/ parent_join_exited
  \/ parent_join_timeout
  \/ \E ok \in BOOLEAN : parent_terminate(ok)
  \/ parent_join10
  \/ \E openOk \in BOOLEAN : parent_read(openOk)
  \/ parent_cleanup

IsoSpec == IsoInit /\ [][IsoNext]_vars

\* The parent's own steps always end: join returns at its timeout at the
\* latest, and the file operations are local.
IsoFairSpec ==
  /\ IsoSpec
  /\ WF_vars(parent_join_exited \/ parent_join_timeout)
  /\ WF_vars(\E ok \in BOOLEAN : parent_terminate(ok))
  /\ WF_vars(parent_join10)
  /\ WF_vars(\E openOk \in BOOLEAN : parent_read(openOk))
  /\ WF_vars(parent_cleanup)

\* ------------------------------------------------------------------------
\* Properties
\* ------------------------------------------------------------------------
Returned == rf = "returned"
TimedOut == timer = "fired"
Logged(label) == HasEntry(messages, label)
StepFailed(label) ==
  Logged(label) /\ ~Contains(EntryOut(messages, label), SuccessMarker)

\* C1: every result run_flow returns with success = true carries a mobile_number
\* that is a non-empty string.
C1_SuccessHasMobile ==
  Returned /\ result.success =>
    /\ result.mobile_number # None
    /\ result.mobile_number[1] # <<>>

\* C2: once 'Fill form' has returned a text without "SUCCESS", success stays
\* false, mobile_number stays None and neither 'Validate' nor 'Get mobile' is
\* ever logged.
C2_FillFormShortCircuit ==
  StepFailed("Fill form") =>
    /\ ~Logged("Validate") /\ ~Logged("Get mobile")
    /\ result.success = FALSE /\ result.mobile_number = None

C2_Witness == Returned /\ StepFailed("Fill form") /\ ~TimedOut

\* C3: once 'Validate' has returned an error text, 'Get mobile' is never run
\* and success stays false.
C3_ValidateIsFatal ==
  StepFailed("Validate") => ~Logged("Get mobile") /\ result.success = FALSE

\* C4: when the browser started, the page loaded, the deadline did not expire
\* and no run of 'Fill form', 'Validate' or 'Get mobile' returned a text
\* without its success marker, run_flow returns with 'Get mobile' run and
\* success = true, whatever the optional steps did.
RequiredStepsOk ==
  /\ ~StepFailed("Fill form") /\ ~StepFailed("Validate")
  /\ Logged("Get mobile") => Contains(EntryOut(messages, "Get mobile"), SuccessColon)

C4_SoftFailuresTolerated ==
  Returned /\ browser /\ page /\ ~TimedOut /\ RequiredStepsOk =>
    Logged("Get mobile") /\ result.success = TRUE

C4_Witness ==
  /\ Returned /\ result.success = TRUE /\ ~TimedOut
  /\ Logged("Modal close error") /\ Logged("RTO dropdown click error")
  /\ \A label \in SoftSteps \ {"Click PF proceed"} : StepFailed(label)

\* C5: when run_flow returns (after success, a fatal step or the inner
\* timeout) the profile directory has been removed.
C5_ProfileRemovedOnReturn == Returned => temp_profile = "removed"

C5_Witness ==
  /\ Returned /\ temp_profile = "removed"
  /\ messages[Len(messages)] = TimeoutEntry

\* C6: whenever control has left run_flow, by return or by an exception, the
\* profile directory has been removed, by exactly one rmtree.
C6_ProfileRemovedOnException ==
  rf \in {"returned", "raised"} => temp_profile = "removed" /\ rmtree_calls = 1

\* C7: when the deadline expired before main() had ended, run_flow returns
\* success = false and the log holds the timeout entry.
C7_TimeoutResult ==
  Returned /\ TimedOut =>
    /\ result.success = FALSE
    /\ \E i \in 1..Len(messages) : messages[i] = TimeoutEntry

\* C8: after the deadline has expired, run_flow never waits on the browser
\* driver alone: until it returns, a step that needs no driver response is
\* possible.
DriverFreeStep == human_delay \/ InnerTimeout \/ run_flow_return

C8_ReturnsWithoutDriver ==
  rf = "main" /\ TimedOut => ENABLED DriverFreeStep

\* C9: when the child is alive at the end of p.join(timeout_sec + 60), the
\* parent returns the child_timeout record, and it always does return.
C9_OuterTimeout ==
  /\ [](path = "alive" /\ parent = "returned" => presult = ChildTimeoutResult)
  /\ (path = "alive" ~> parent = "returned")

C9_Witness == path = "alive" /\ parent = "returned" /\ Alive(child)

\* C10: when the child has exited and the file cannot be opened, is empty or
\* does not parse, the parent raises nothing and returns success = false,
\* mobile_number = None and the single entry 'read_error: ...'.
C10_ReadError ==
  path = "exited" /\ read_state \in {"open_failed", "empty", "unparseable"} =>
    /\ parent \in {"cleanup", "returned"}
    /\ presult.success = FALSE /\ presult.mobile_number = None
    /\ Len(presult.messages) = 1 /\ presult.messages[1].label = "read_error"

C10_Witness ==
  parent = "returned" /\ path = "exited" /\ read_state = "unparseable"


\* C11: once _run_in_child_sync has returned, the handoff file does not exist.
C11_HandoffRemoved == parent = "returned" => ~handoff.exists

\* C12: when the child exited before the outer deadline and wrote the whole
\* record run_flow returned, the parent (which could open the file) returns
\* that record, field for field.
RunFlowRecord == FlowResult(result.success, result.mobile_number, messages)
WriteSucceeded == handoff = [exists |-> TRUE, data |-> JsonDump(ChildRes)]

AllSucceeded ==
  /\ ~TimedOut
  /\ Logged("Modal dialog closed") /\ Logged("Clicked RTO dropdown")
  /\ \A label \in ScriptSteps \ {"Get mobile"} :
       Logged(label) /\ EntryOut(messages, label) = OkText
  /\ Logged("Get mobile")
  /\ EntryOut(messages, "Get mobile") = SuccessColon \o <<" ", "9">>

\* C13 as stated: the all-success run returns success = true, mobile_number
\* '9' and a log of exactly 11 entries.
C13_ElevenEntries ==
  Returned /\ AllSucceeded =>
    /\ result.success = TRUE /\ result.mobile_number = Some(<<"9">>)
    /\ Len(messages) = 11

\* C13 amended: the all-success run returns success = true, mobile_number '9'
\* and a log of exactly 15 entries, 11 of them written by the scripted steps.
C13_FifteenEntries ==
  Returned /\ AllSucceeded =>
    /\ result.success = TRUE /\ result.mobile_number = Some(<<"9">>)
    /\ Len(messages) = 15
    /\ Cardinality({i \in 1..Len(messages) : messages[i].label \in ScriptSteps}) = 11

C13_Witness == Returned /\ AllSucceeded /\ result.success = TRUE

\* C14: when the run failed (run_flow raised, the page load raised or the inner
\* deadline expired), _run_in_child_sync returns success = false,
\* mobile_number = None and a non-empty log, and raises nothing.
RunFailed == rf = "raised" \/ TimedOut \/ Logged("Error")

C14_FailuresAreData ==
  parent \in {"returned", "raised"} /\ RunFailed =>
    /\ parent = "returned"
    /\ presult.success = FALSE /\ presult.mobile_number = None
    /\ Len(presult.messages) >= 1

\* C15: after the deadline has expired nothing is appended to the log but the
\* timeout entry.
C15_NoStepAfterDeadline ==
  TimedOut =>
    \/ Len(messages) = expiry_len
    \/ Len(messages) = expiry_len + 1 /\ messages[Len(messages)] = TimeoutEntry

\* C16: when run_flow returns after the page was opened, clear_storage was
\* called once on exit, and once on entry unless the deadline expired first.
C16_StorageCleared ==
  Returned /\ page =>
    /\ clear_calls.exit = 1
    /\ clear_calls.entry <= 1
    /\ ~TimedOut => clear_calls.entry = 1

\* C17: a 'Get mobile' text yields a value only when it starts with
\* 'SUCCESS:', the value being the stripped remainder; any other text leaves
\* success = false and mobile_number = None.
StartsWith(s, p) == Len(s) >= Len(p) /\ SubSeq(s, 1, Len(p)) = p

C17_ExtractionParsing ==
  Returned /\ Logged("Get mobile") =>
    LET out == EntryOut(messages, "Get mobile")
    IN IF StartsWith(out, SuccessColon)
       THEN result.mobile_number =
              Some(Strip(SubSeq(out, Len(SuccessColon) + 1, Len(out))))
       ELSE result.success = FALSE /\ result.mobile_number = None

\* C18: when the parent has terminated a child that was inside run_flow, the
\* profile directory of that child no longer exists once the parent returns.
C18_NoProfileAfterKill ==
  parent = "returned" /\ path = "alive" /\ child = "killed" =>
    temp_profile # "exists"

\* C19: when the browser was started, browser.stop() has been called exactly
\* once by the time run_flow returns; run_flow leaves by an exception only
\* when no browser was started; and once browser.stop() has been called,
\* whatever it and the exit clear_storage did, main() has ended and run_flow
\* can return.
C19_BrowserStoppedOnce ==
  /\ Returned /\ browser => stop_calls = 1
  /\ rf = "raised" => ~browser
  /\ stop_calls <= 1
  /\ InMain /\ stop_calls = 1 => pc = "main_done" /\ ENABLED run_flow_return

C19_Witness ==
  /\ Returned /\ browser /\ stop_calls = 1
  /\ TimedOut /\ messages[Len(messages)] # TimeoutEntry

\* C20: the parent reads the handoff file only after the child has exited,
\* and never on the child_timeout path.
C20_ReadAfterExit ==
  /\ parent = "read" => ~Alive(child)
  /\ read_state # "none" => path = "exited" /\ ~Alive(child)
  /\ path = "alive" => read_state = "none"

C20_Witness ==
  parent = "returned" /\ read_state = "unparseable" /\ child = "exited"

====
